---------------------------- MODULE Spec2Model ----------------------------
(***************************************************************************)
(* Job Status Analyzer (src/app.py, src/utils.py).                         *)
(*                                                                         *)
(* One run of the Streamlit script: a batch of uploaded CSV files is       *)
(* turned into one record per file (utils.process_csv_file), the records   *)
(* are stacked into a table, the date column is coerced, the user's        *)
(* filters are applied, three charts and the per-vessel breakdown are      *)
(* built and the spreadsheet report is written.                            *)
(*                                                                         *)
(* Python text is modelled as a sequence of one-character strings, so      *)
(* that the regular expression, lower(), strip(), strftime and the         *)
(* lexicographic order of str are computed character by character.         *)
(* A Python value held in a table cell is a record [t, s, n]:              *)
(*   t = "str"  a str, its text in s                                       *)
(*   t = "int"  an int, its value in n                                     *)
(*   t = "nan"  float('nan'), what pandas stores for a missing value       *)
(*   t = "date" a Timestamp / datetime.date, n = year*10000+month*100+day  *)
(*   t = "nat"  pandas.NaT                                                 *)
(*   t = "none" an object that is not a str (a file name that is None)     *)
(***************************************************************************)
EXTENDS Integers, Sequences, FiniteSets, TLC

VARIABLES
    uploaded_files,       \* the batch handed over by st.file_uploader
    pc,                   \* position of the script
    summary_data,         \* list of records appended by the loop
    progress,             \* last value given to progress_bar.progress
    err,                  \* the exception that stopped the script, if any
    df,                   \* the table after date coercion
    vessel_filter,        \* st.multiselect result
    date_range,           \* st.date_input result
    filtered_df,          \* the table after both filters
    charts,               \* the three figures' data
    filtered_df_display,  \* filtered_df with the date as text
    breakdown,            \* one entry per vessel expander
    excel_file            \* the sheet written by create_excel_report

vars == <<uploaded_files, pc, summary_data, progress, err, df, vessel_filter,
          date_range, filtered_df, charts, filtered_df_display, breakdown,
          excel_file>>

---------------------------------------------------------------------------
(* Bounds of the model *)

\* Largest number of files in one uploaded batch.
MaxFiles == 2

\* Largest number of data rows of a generated CSV table.
MaxRows == 2

---------------------------------------------------------------------------
(* Characters *)

\* The characters of the model's texts, each group in code point order.
DigitChars == <<"0", "1", "2", "3", "4", "5", "6", "7", "8", "9">>

UpperChars ==
    <<"A", "B", "C", "D", "E", "F", "G", "H", "I", "J", "K", "L", "M", "N",
      "O", "P", "Q", "R", "S", "T", "U", "V", "W", "X", "Y", "Z">>

LowerChars ==
    <<"a", "b", "c", "d", "e", "f", "g", "h", "i", "j", "k", "l", "m", "n",
      "o", "p", "q", "r", "s", "t", "u", "v", "w", "x", "y", "z">>

IndexOf(seq, c) == CHOOSE k \in 1..Len(seq) : seq[k] = c

InSeq(seq, c) == \E k \in 1..Len(seq) : seq[k] = c

\* ord(c), the ASCII code point.
Ord(c) ==
    IF InSeq(DigitChars, c) THEN 47 + IndexOf(DigitChars, c)
    ELSE IF InSeq(UpperChars, c) THEN 64 + IndexOf(UpperChars, c)
    ELSE IF InSeq(LowerChars, c) THEN 96 + IndexOf(LowerChars, c)
    ELSE CASE c = " " -> 32
           [] c = "-" -> 45
           [] c = "." -> 46
           [] c = "_" -> 95

\* chr(n) for a digit or a letter.
Chr(n) ==
    IF n >= 48 /\ n <= 57 THEN DigitChars[n - 47]
    ELSE IF n >= 65 /\ n <= 90 THEN UpperChars[n - 64]
    ELSE LowerChars[n - 96]

IsDigit(c) == InSeq(DigitChars, c)

IsUpper(c) == InSeq(UpperChars, c)

IsLower(c) == InSeq(LowerChars, c)

\* \w of the re module: a letter, a digit or the underscore.
IsWordChar(c) == IsDigit(c) \/ IsUpper(c) \/ IsLower(c) \/ c = "_"

\* The whitespace str.strip() removes; the space is the only one modelled.
IsSpace(c) == c = " "

\* str.lower()
Lower(s) ==
    [k \in 1..Len(s) |->
        IF IsUpper(s[k]) THEN LowerChars[IndexOf(UpperChars, s[k])] ELSE s[k]]

\* The one element of a set of one element. An operator argument is
\* evaluated wherever it is used; a variable bound over a set is evaluated
\* once, which is how the definitions below name an intermediate result.
The(set) == CHOOSE x \in set : TRUE

\* sub in s
Contains(s, sub) ==
    \E p \in 1..(Len(s) - Len(sub) + 1) : SubSeq(s, p, p + Len(sub) - 1) = sub

\* The least and the greatest element of a set of numbers.
Least(set) == CHOOSE k \in set : \A j \in set : k <= j

Greatest(set) == CHOOSE k \in set : \A j \in set : k >= j

\* s[lo:hi] for the positions kept, empty when none is.
Between(s, keep) ==
    IF keep = {} THEN <<>> ELSE SubSeq(s, Least(keep), Greatest(keep))

\* str.strip(): from the first to the last character that is no whitespace.
Strip(s) == Between(s, {k \in 1..Len(s) : ~IsSpace(s[k])})

\* a < b for two str: the order of the first differing code point, a proper
\* prefix first.
StrLess(a, b) ==
    \E k \in 1..(Len(b)) :
        /\ k <= Len(a) + 1
        /\ \A j \in 1..(k - 1) : a[j] = b[j]
        /\ \/ k = Len(a) + 1
           \/ k <= Len(a) /\ Ord(a[k]) < Ord(b[k])

---------------------------------------------------------------------------
(* Python values *)

PyStr(s) == [t |-> "str", s |-> s, n |-> 0]

PyInt(n) == [t |-> "int", s |-> <<>>, n |-> n]

NaN == [t |-> "nan", s |-> <<>>, n |-> 0]

NaT == [t |-> "nat", s |-> <<>>, n |-> 0]

None == [t |-> "none", s |-> <<>>, n |-> 0]

Date(y, m, d) == [t |-> "date", s |-> <<>>, n |-> y * 10000 + m * 100 + d]

\* The exception values of the model.
TypeError == [t |-> "exc", s |-> <<"T","y","p","e","E","r","r","o","r">>, n |-> 0]

IsExc(v) == v.t = "exc"

\* pandas.isna
IsNull(v) == v.t \in {"nan", "nat"}

\* a == b: nan is equal to nothing, itself included.
PyEq(a, b) == a.t # "nan" /\ b.t # "nan" /\ a = b

\* a + b: int + int, str + str; every other pair raises TypeError.
PyAdd(a, b) ==
    IF IsExc(a) THEN a
    ELSE IF IsExc(b) THEN b
    ELSE IF a.t = "int" /\ b.t = "int" THEN PyInt(a.n + b.n)
    ELSE IF a.t = "str" /\ b.t = "str" THEN PyStr(a.s \o b.s)
    ELSE TypeError

\* a - b: defined for int - int only.
PySub(a, b) ==
    IF IsExc(a) THEN a
    ELSE IF IsExc(b) THEN b
    ELSE IF a.t = "int" /\ b.t = "int" THEN PyInt(a.n - b.n)
    ELSE TypeError

\* A dict is the sequence of its <<key, value>> items in insertion order.
Keys(d) == [k \in 1..Len(d) |-> d[k][1]]

Get(d, key) == d[CHOOSE k \in 1..Len(d) : d[k][1] = key][2]

\* The literals of the source.
Unknown == <<"U","n","k","n","o","w","n">>

Error == <<"E","r","r","o","r">>

VesselColumnNotFound ==
    <<"V","e","s","s","e","l"," ","c","o","l","u","m","n"," ","n","o","t"," ",
      "f","o","u","n","d">>

New == <<"N","e","w">>

vessel == <<"v","e","s","s","e","l">>

status == <<"s","t","a","t","u","s">>

---------------------------------------------------------------------------
(* utils.process_csv_file *)

\* \b at the gap before position p of s (p = Len(s) + 1: the end): exactly one
\* of the two neighbours is a word character; a string edge counts as none.
WordBoundary(s, p) ==
    LET before == p > 1 /\ IsWordChar(s[p - 1])
        after == p <= Len(s) /\ IsWordChar(s[p])
    IN before # after

\* The pattern \b(\d{2})(\d{2})(\d{4})\b matches s from position p.
MatchAt(s, p) ==
    /\ p + 7 <= Len(s)
    /\ WordBoundary(s, p)
    /\ \A k \in 0..7 : IsDigit(s[p + k])
    /\ WordBoundary(s, p + 8)

\* The first of a set of positions, 0 when there is none.
First(positions) == IF positions = {} THEN 0 ELSE Least(positions)

\* re.search: the start of the leftmost match, 0 for None.
date_match(filename) == First({p \in 1..Len(filename) : MatchAt(filename, p)})

\* f"{group(1)}-{group(2)}-{group(3)}" if date_match else "Unknown", for the
\* match that starts at p.
FormatMatch(filename, p) ==
    IF p = 0 THEN Unknown
    ELSE SubSeq(filename, p, p + 1) \o <<"-">> \o
         SubSeq(filename, p + 2, p + 3) \o <<"-">> \o
         SubSeq(filename, p + 4, p + 7)

formatted_date(filename) == FormatMatch(filename, date_match(filename))

\* next((col for col in df.columns if word in col.lower()), None): the index
\* of the first such column, 0 for None.
FirstColumn(columns, word) ==
    First({c \in 1..Len(columns) :
             \E lower \in {Lower(columns[c])} : Contains(lower, word)})

\* Series.astype(str) of one cell: a missing value becomes the text nan.
AsStr(v) == IF v.t = "nan" THEN <<"n","a","n">> ELSE v.s

\* The count without .str.strip().
CountNewUnstripped(rows, col) ==
    Cardinality({r \in 1..Len(rows) : AsStr(rows[r][col]) = New})

\* (df[status_column].astype(str).str.strip() == 'New').sum()
CountNew(rows, col) ==
    Cardinality({r \in 1..Len(rows) : Strip(AsStr(rows[r][col])) = New})

\* The keys with the date before the counts.
RecordKeysDateThird ==
    <<"File Name", "Vessel Name", "Date Extracted from File Name",
      "Total Count of Jobs", "New Job Count">>

\* The keys of the returned dict, in the order the literal writes them.
RecordKeys ==
    <<"File Name", "Vessel Name", "Total Count of Jobs", "New Job Count",
      "Date Extracted from File Name">>

\* The dict literal of the two return statements: each key with its value.
MakeRecord(file_name, vessel_name, job_count, new_job_count, date) ==
    LET Value(key) ==
            CASE key = "File Name" -> file_name
              [] key = "Vessel Name" -> vessel_name
              [] key = "Total Count of Jobs" -> job_count
              [] key = "New Job Count" -> new_job_count
              [] key = "Date Extracted from File Name" -> date
    IN [k \in 1..Len(RecordKeys) |-> <<RecordKeys[k], Value(RecordKeys[k])>>]

NoExc == "None"

\* The locals of the call and its outcome: the exception raised (NoExc for
\* none) and the dict returned.
NoLocals ==
    [exc |-> NoExc, has_filename |-> FALSE, filename |-> None,
     has_date |-> FALSE, formatted_date |-> <<>>, ret |-> <<>>]

\* From df = pd.read_csv(file) to the return, with the locals bound before.
ReadAndCount(file, locals, vessel_column, status_column) ==
    IF file.content.kind # "table"
    THEN [locals EXCEPT !.exc = file.content.kind]
    ELSE IF vessel_column # 0 /\ file.content.rows = <<>>
    THEN [locals EXCEPT !.exc = "IndexError"]
    ELSE [locals EXCEPT !.ret =
            MakeRecord(locals.filename,
                       IF vessel_column # 0
                       THEN file.content.rows[1][vessel_column]
                       ELSE PyStr(VesselColumnNotFound),
                       PyInt(Len(file.content.rows)),
                       PyInt(IF status_column # 0
                             THEN CountNew(file.content.rows, status_column)
                             ELSE 0),
                       PyStr(locals.formatted_date))]

\* The try block, statement by statement: file.name raises AttributeError
\* on an object without a name, re.search raises TypeError on a name that
\* is no str, read_csv raises on a buffer it cannot read or parse, and
\* .iloc[0] raises IndexError on a vessel column without a row.
TryBlock(file) ==
    IF ~file.has_name
    THEN [NoLocals EXCEPT !.exc = "AttributeError"]
    ELSE IF file.name.t # "str"
    THEN [NoLocals EXCEPT !.exc = "TypeError", !.has_filename = TRUE,
                          !.filename = file.name]
    ELSE The({ReadAndCount(file, locals, vessel_column, status_column) :
                locals \in {[NoLocals EXCEPT
                                !.has_filename = TRUE,
                                !.filename = file.name,
                                !.has_date = TRUE,
                                !.formatted_date = formatted_date(file.name.s)]},
                vessel_column \in {FirstColumn(file.content.columns, vessel)},
                status_column \in {FirstColumn(file.content.columns, status)}})

\* except Exception: every exception of the try block is an Exception.
Catches(exc) ==
    exc \in {"AttributeError", "TypeError", "EmptyDataError", "ParserError",
             "OSError", "IndexError"}

\* An except clause that gives 'Unknown' as the date whatever was extracted.
ErrorRecordForgetsDate(locals) ==
    MakeRecord(IF locals.has_filename THEN locals.filename ELSE PyStr(Unknown),
               PyStr(Error), PyStr(Error), PyStr(Error), PyStr(Unknown))

\* The dict of the except clause, from the locals bound when it was raised.
ErrorRecord(locals) ==
    MakeRecord(IF locals.has_filename THEN locals.filename ELSE PyStr(Unknown),
               PyStr(Error), PyStr(Error), PyStr(Error),
               IF locals.has_date THEN PyStr(locals.formatted_date)
               ELSE PyStr(Unknown))

\* The outcome of the whole statement for the outcome of its try block.
TryExcept(r) ==
    IF r.exc = NoExc THEN [exc |-> NoExc, ret |-> r.ret]
    ELSE IF Catches(r.exc) THEN [exc |-> NoExc, ret |-> ErrorRecord(r)]
    ELSE [exc |-> r.exc, ret |-> <<>>]

\* The call: the dict returned, or the exception that leaves the function.
process_csv_file(file) == The({TryExcept(r) : r \in {TryBlock(file)}})

---------------------------------------------------------------------------
(* Inputs: the files of the model *)

csv == <<".","c","s","v">>

\* A file of the uploader: it has a name, a str.
Uploaded(name, content) == [has_name |-> TRUE, name |-> PyStr(name), content |-> content]

Table(columns, rows) == [kind |-> "table", columns |-> columns, rows |-> rows]

\* A buffer pandas.read_csv raises on.
Unreadable(kind) == [kind |-> kind, columns |-> <<>>, rows |-> <<>>]

Titan == PyStr(<<"T","i","t","a","n">>)

Atlas == PyStr(<<"A","t","l","a","s">>)

VesselStatusColumns == <<<<"V","e","s","s","e","l","_","N","a","m","e">>, <<"J","o","b"," ","S","t","a","t","u","s">>>>

\* Titan, 15 January 2024: three jobs, two of them New once stripped.
TitanJan ==
    Uploaded(<<"1","5","0","1","2","0","2","4",".","c","s","v">>,
             Table(VesselStatusColumns,
                   <<<<Titan, PyStr(<<"N","e","w">>)>>,
                     <<Titan, PyStr(<<" ","N","e","w"," ">>)>>,
                     <<Titan, PyStr(<<"D","o","n","e">>)>>>>))

\* Titan, 1 February 2024: one New job.
TitanFeb ==
    Uploaded(<<"0","1","0","2","2","0","2","4",".","c","s","v">>,
             Table(VesselStatusColumns, <<<<Titan, PyStr(<<"N","e","w">>)>>>>))

\* Atlas, the date glued to a word by an underscore; no status column.
AtlasReport ==
    Uploaded(<<"r","e","p","o","r","t","_","2","0","0","1","2","0","2","4",".","c","s","v">>,
             Table(<<<<"V","E","S","S","E","L">>, <<"T","i","t","l","e">>>>,
                   <<<<Atlas, PyStr(<<"P","u","m","p">>)>>,
                     <<Atlas, PyStr(<<"N","e","w">>)>>>>))

\* A file read_csv cannot parse, dated 15 January 2024 as TitanJan is.
Broken ==
    Uploaded(<<"b","a","d"," ","1","5","0","1","2","0","2","4",".","c","s","v">>,
             Unreadable("ParserError"))

\* A table whose first row has no vessel value, dated 1 February 2024.
Unnamed ==
    Uploaded(<<"j","o","b","s"," ","0","1","0","2","2","0","2","4",".","c","s","v">>,
             Table(VesselStatusColumns,
                   <<<<NaN, PyStr(<<"N","e","w">>)>>,
                     <<Titan, PyStr(<<"n","e","w">>)>>>>))

\* No vessel column, and a file name whose digits are no calendar date.
Legacy ==
    Uploaded(<<"3","1","0","2","2","0","2","4",".","c","s","v">>,
             Table(<<<<"T","i","t","l","e">>, <<"S","t","a","t","u","s">>>>,
                   <<<<PyStr(<<"P","u","m","p">>), PyStr(<<"N","e","w">>)>>>>))

Catalog == {TitanJan, TitanFeb, AtlasReport, Broken, Unnamed, Legacy}

\* The batches of at most n files.
Batches(n) == UNION {[1..k -> Catalog] : k \in 0..n}

\* File names built around a run of digits: what stands before the run, the
\* run, what follows it.
NamePrefixes ==
    {<<>>,
      <<"r","e","p","o","r","t","_">>,
      <<"r","e","p","o","r","t"," ">>,
      <<"v">>,
      <<"2">>,
      <<"j","o","b","-">>}

NameRuns ==
    {<<"0","1","0","2","2","0","2","4">>,
      <<"1","5","0","1","2","0","2","4">>,
      <<"9","9","1","2","3","4","5">>,
      <<"1","2","3","4","5","6","7","8","9">>}

NameSuffixes ==
    {<<".","c","s","v">>,
      <<"_","v","2",".","c","s","v">>,
      <<>>,
      <<"a",".","c","s","v">>,
      <<" ","3","1","1","2","2","0","2","3",".","c","s","v">>,
      <<"5",".","c","s","v">>}

FileNames ==
    {a \o b \o c : a \in NamePrefixes, b \in NameRuns, c \in NameSuffixes}
    \cup {<<"n","o","t","e","s",".","c","s","v">>}

\* A table of one Titan job, the buffers read_csv raises on, and a table that
\* has a vessel column and no data row.
FewContents ==
    {Table(VesselStatusColumns, <<<<Titan, PyStr(New)>>>>),
     Table(VesselStatusColumns, <<>>),
     Unreadable("ParserError"), Unreadable("EmptyDataError"),
     Unreadable("OSError")}

\* Header rows: with and without a vessel and a status column, in either
\* order and case, and with two columns that both contain the word status.
ColumnChoices ==
    {VesselStatusColumns,
     <<<<"J","o","b"," ","T","i","t","l","e">>, <<"S","T","A","T","U","S">>>>,
     <<<<"S","t","a","t","u","s">>, <<"S","u","b"," ","s","t","a","t","u","s">>>>,
     <<<<"V","E","S","S","E","L">>, <<"T","i","t","l","e">>>>,
     <<<<"S","u","b"," ","s","t","a","t","u","s">>, <<"V","e","s","s","e","l"," ","S","t","a","t","u","s">>>>}

CellValues ==
    {PyStr(<<"N","e","w">>), PyStr(<<" ","N","e","w"," ">>), PyStr(<<"n","e","w">>), NaN}

\* The two-column tables of at most n data rows.
Tables(n) ==
    {Table(columns, rows) :
        columns \in ColumnChoices,
        rows \in UNION {[1..k -> [1..2 -> CellValues]] : k \in 0..n}}

\* The file objects process_csv_file is applied to on its own: every name
\* with a few contents, every table under one name, and two objects whose
\* name is missing or is no str.
LooseFiles ==
    {Uploaded(name, content) : name \in FileNames, content \in FewContents}
    \cup {Uploaded(<<"1","5","0","1","2","0","2","4",".","c","s","v">>, content) : content \in Tables(MaxRows)}
    \cup {[has_name |-> FALSE, name |-> None, content |-> content] :
            content \in FewContents}
    \cup {[has_name |-> TRUE, name |-> None, content |-> content] :
            content \in FewContents}

---------------------------------------------------------------------------
(* The script of app.py *)

NoError == [at |-> "", exc |-> NoExc]

EmptyFrame == [columns |-> <<>>, rows |-> <<>>]

NoSheet ==
    [header |-> <<>>, rows |-> <<>>, duplicate_rule |-> <<>>, gray_fill |-> {},
     table_ref |-> <<>>]

NoCharts == [metrics |-> <<>>, bar |-> <<>>, timeline |-> <<>>, pie |-> <<>>]

\* The page before any file is uploaded.
Init ==
    /\ uploaded_files = <<>>
    /\ pc = "upload"
    /\ summary_data = <<>>
    /\ progress = [num |-> 0, den |-> 1]
    /\ err = NoError
    /\ df = EmptyFrame
    /\ vessel_filter = {}
    /\ date_range = <<>>
    /\ filtered_df = EmptyFrame
    /\ charts = NoCharts
    /\ filtered_df_display = EmptyFrame
    /\ breakdown = <<>>
    /\ excel_file = NoSheet

\* The script reaches `if uploaded_files:` with the batch: the loop starts,
\* or st.info asks for files when the batch is empty.
Run(batch) ==
    /\ pc = "upload"
    /\ uploaded_files' = batch
    /\ pc' = IF batch = <<>> THEN "info" ELSE "loop"
    /\ UNCHANGED <<summary_data, progress, err, df, vessel_filter, date_range,
                   filtered_df, charts, filtered_df_display, breakdown,
                   excel_file>>

\* st.file_uploader returns a batch of the catalog.
Upload == \E batch \in Batches(MaxFiles) : Run(batch)

\* process_csv_file is handed one file object on its own.
CallOne == \E file \in LooseFiles : Run(<<file>>)

\* i / len(uploaded_files): the progress of the files before this one.
ProgressOfFilesBefore(i, n) == [num |-> i, den |-> n]

\* (i + 1) / len(uploaded_files), as a fraction.
Progress(i, n) == [num |-> i + 1, den |-> n]

Raise(at, exc) ==
    /\ pc' = "crashed"
    /\ err' = [at |-> at, exc |-> exc]

\* The loop body for index i of n, given the outcome r of the call.
LoopBody(i, n, r) ==
    IF r.exc # NoExc
    THEN /\ Raise("loop", r.exc)
         /\ UNCHANGED <<summary_data, progress>>
    ELSE /\ summary_data' = Append(summary_data, r.ret)
         /\ progress' = Progress(i, n)
         /\ pc' = IF i + 1 = n THEN "frame" ELSE "loop"
         /\ err' = err

\* One iteration of `for i, file in enumerate(uploaded_files)`.
ProcessFile ==
    /\ pc = "loop"
    /\ \E r \in {process_csv_file(uploaded_files[Len(summary_data) + 1])} :
           LoopBody(Len(summary_data), Len(uploaded_files), r)
    /\ UNCHANGED <<uploaded_files, df, vessel_filter, date_range, filtered_df,
                   charts, filtered_df_display, breakdown, excel_file>>

\* process_csv_file on every file object of the model.
ExtractSpec == Init /\ [][CallOne \/ ProcessFile]_vars

\* The loop over the batches of the catalog: a plain for loop of one thread,
\* so an iteration that can run does run.
LoopSpec == Init /\ [][Upload \/ ProcessFile]_vars /\ WF_vars(ProcessFile)

---------------------------------------------------------------------------
(* Tables *)

\* The position of a column of a frame.
Col(frame, key) == CHOOSE c \in 1..Len(frame.columns) : frame.columns[c] = key

\* frame[key] as a list.
Column(frame, key) == [r \in 1..Len(frame.rows) |-> frame.rows[r][Col(frame, key)]]

\* frame[mask]: the rows whose index is in keep, in their order.
Rows(frame, keep) ==
    LET Idx == [r \in 1..Len(frame.rows) |-> r]
        Kept(r) == r \in keep
        idx == SelectSeq(Idx, Kept)
    IN [frame EXCEPT !.rows = [k \in 1..Len(idx) |-> frame.rows[idx[k]]]]

\* The elements of a list in the order given by the strict total order
\* Before on their positions.
Reorder(seq, Before(_, _)) ==
    LET n == Len(seq)
    IN [p \in 1..n |->
          seq[CHOOSE i \in 1..n : Cardinality({j \in 1..n : Before(j, i)}) = p - 1]]

\* Series.sum(): the values are added from the first on; 0 when empty.
RECURSIVE AddUp(_, _)
AddUp(acc, seq) ==
    IF seq = <<>> THEN acc ELSE AddUp(PyAdd(acc, Head(seq)), Tail(seq))

Sum(seq) == IF seq = <<>> THEN PyInt(0) ELSE AddUp(Head(seq), Tail(seq))

\* Series.unique(), as a set: the missing value is one value.
Unique(seq) == {seq[k] : k \in 1..Len(seq)}

\* sorted(values) for str and nan values: comparing a float with a str raises
\* TypeError, and the str sort by code points.
Sorted(values) ==
    IF NaN \in values /\ values # {NaN} THEN <<TypeError>>
    ELSE [p \in 1..Cardinality(values) |->
            CHOOSE v \in values :
                Cardinality({w \in values : StrLess(w.s, v.s)}) = p - 1]

---------------------------------------------------------------------------
(* Dates *)

\* int(text) for a text of digits.
RECURSIVE Number(_)
Number(digits) ==
    IF digits = <<>> THEN 0
    ELSE 10 * Number(SubSeq(digits, 1, Len(digits) - 1))
         + (Ord(digits[Len(digits)]) - Ord("0"))

DaysInMonth(y, m) ==
    IF m \in {4, 6, 9, 11} THEN 30
    ELSE IF m # 2 THEN 31
    ELSE IF y % 4 = 0 /\ (y % 100 # 0 \/ y % 400 = 0) THEN 29
    ELSE 28

\* One value of pd.to_datetime(column, format='%d-%m-%Y', errors='coerce'):
\* two digits, a dash, two digits, a dash, four digits that name a day of
\* the calendar give that day; every other text gives NaT.
ToDatetime(v) ==
    LET s == v.s
        shaped == /\ v.t = "str"
                  /\ Len(s) = 10
                  /\ s[3] = "-" /\ s[6] = "-"
                  /\ \A k \in {1, 2, 4, 5, 7, 8, 9, 10} : IsDigit(s[k])
        d == Number(SubSeq(s, 1, 2))
        m == Number(SubSeq(s, 4, 5))
        y == Number(SubSeq(s, 7, 10))
    IN IF shaped /\ y >= 1 /\ m >= 1 /\ m <= 12 /\ d >= 1 /\ d <= DaysInMonth(y, m)
       THEN Date(y, m, d)
       ELSE NaT

\* The decimal digits of n, zero padded to width.
RECURSIVE Digits(_, _)
Digits(n, width) ==
    IF width = 0 THEN <<>>
    ELSE Append(Digits(n \div 10, width - 1), Chr(Ord("0") + (n % 10)))

\* One value of Series.dt.strftime('%d-%m-%Y'): NaT gives a missing value.
Strftime(v) ==
    IF v.t # "date" THEN NaN
    ELSE PyStr(Digits(v.n % 100, 2) \o <<"-">> \o Digits((v.n \div 100) % 100, 2)
               \o <<"-">> \o Digits(v.n \div 10000, 4))

\* Series.min() and Series.max() of the date column: NaT is skipped, and NaT
\* is the result when nothing is left.
MinDate(dates) ==
    LET known == {d \in Unique(dates) : d.t = "date"}
    IN IF known = {} THEN NaT ELSE CHOOSE d \in known : \A e \in known : d.n <= e.n

MaxDate(dates) ==
    LET known == {d \in Unique(dates) : d.t = "date"}
    IN IF known = {} THEN NaT ELSE CHOOSE d \in known : \A e \in known : d.n >= e.n

---------------------------------------------------------------------------
(* The script after the loop *)

\* pd.DataFrame(summary_data): the columns are the keys of the dicts in their
\* order (every dict has the same keys), one row per dict.
DataFrame(records) ==
    LET columns == Keys(records[1])
    IN [columns |-> columns,
        rows |-> [r \in 1..Len(records) |->
                    [c \in 1..Len(columns) |-> Get(records[r], columns[c])]]]

\* frame[key] = f(frame[key]), value by value.
MapColumn(frame, key, F(_)) ==
    [frame EXCEPT !.rows =
        [r \in 1..Len(frame.rows) |->
            [frame.rows[r] EXCEPT ![Col(frame, key)] = F(@)]]]

\* df = pd.DataFrame(summary_data), then the date column through to_datetime.
BuildTable ==
    /\ pc = "frame"
    /\ df' = MapColumn(DataFrame(summary_data), "Date Extracted from File Name",
                       ToDatetime)
    /\ pc' = "filters"
    /\ UNCHANGED <<uploaded_files, summary_data, progress, err, vessel_filter,
                   date_range, filtered_df, charts, filtered_df_display,
                   breakdown, excel_file>>

\* Whether sorted() can order the values: a float nan next to a str cannot be
\* compared.
Sortable(values) == ~(NaN \in values /\ values # {NaN})

\* Days of the calendar the user can pick besides the days of the files.
OtherDays == {Date(2024, 1, 18)}

\* What st.date_input can return for value=(lo, hi), min_value=lo,
\* max_value=hi: the start alone while the user is choosing, or a start and
\* an end, all within the limits.
DateInput(lo, hi, days) ==
    LET open == {d \in days \cup OtherDays \cup {lo, hi} : lo.n <= d.n /\ d.n <= hi.n}
    IN {<<a>> : a \in open} \cup {r \in open \X open : r[1].n <= r[2].n}

\* The two filter widgets. sorted() raises when a missing vessel name stands
\* beside a text. min_date.date() of NaT is NaT, which st.date_input cannot
\* format (date.strftime needs its timetuple): ValueError.
Filters ==
    /\ pc = "filters"
    /\ LET names == Unique(Column(df, "Vessel Name"))
           dates == Column(df, "Date Extracted from File Name")
           min_date == MinDate(dates)
           max_date == MaxDate(dates)
       IN IF ~Sortable(names)
          THEN /\ Raise("multiselect", "TypeError")
               /\ UNCHANGED <<vessel_filter, date_range>>
          ELSE /\ vessel_filter' \in SUBSET names
               /\ IF min_date = NaT \/ max_date = NaT
                  THEN /\ Raise("date_input", "ValueError")
                       /\ UNCHANGED date_range
                  ELSE /\ date_range' \in DateInput(min_date, max_date, Unique(dates) \ {NaT})
                       /\ pc' = "apply"
                       /\ err' = err
    /\ UNCHANGED <<uploaded_files, summary_data, progress, df, filtered_df,
                   charts, filtered_df_display, breakdown, excel_file>>

\* Series.isin(values): a missing value is in a list that holds one.
IsIn(v, values) == v \in values

\* The range without its last day.
InRangeExclusiveEnd(d, start_date, end_date) ==
    /\ ~IsNull(d)
    /\ d.n >= start_date.n
    /\ d.n < end_date.n

\* (date >= start_date) & (date <= end_date) for one value of .dt.date: a
\* missing date compares False.
InRange(d, start_date, end_date) ==
    /\ ~IsNull(d)
    /\ d.n >= start_date.n
    /\ d.n <= end_date.n

\* filtered_df: the vessel filter if any vessel is selected, then the date
\* filter if the range has its two ends.
ApplyFilters ==
    /\ pc = "apply"
    /\ LET by_vessel ==
               IF vessel_filter # {}
               THEN Rows(df, {r \in 1..Len(df.rows) :
                                IsIn(Column(df, "Vessel Name")[r], vessel_filter)})
               ELSE df
           by_date ==
               IF Len(date_range) = 2
               THEN Rows(by_vessel,
                         {r \in 1..Len(by_vessel.rows) :
                            InRange(Column(by_vessel, "Date Extracted from File Name")[r],
                                    date_range[1], date_range[2])})
               ELSE by_vessel
       IN filtered_df' = by_date
    /\ pc' = "tab1"
    /\ UNCHANGED <<uploaded_files, summary_data, progress, err, df, vessel_filter,
                   date_range, charts, filtered_df_display, breakdown, excel_file>>

\* DataFrame.sort_values(key): ascending, missing values last, equal values
\* in their input order (tables this small are sorted by insertion).
SortValues(frame, key) ==
    LET v == Column(frame, key)
        Before(j, i) ==
            IF IsNull(v[j]) \/ IsNull(v[i])
            THEN (~IsNull(v[j]) /\ IsNull(v[i])) \/ (IsNull(v[j]) /\ IsNull(v[i]) /\ j < i)
            ELSE v[j].n < v[i].n \/ (v[j].n = v[i].n /\ j < i)
    IN [frame EXCEPT !.rows = Reorder(frame.rows, Before)]

\* utils.create_vessel_job_distribution_chart: the bars in date order.
create_vessel_job_distribution_chart(frame) ==
    LET sorted == SortValues(frame, "Date Extracted from File Name")
    IN [x |-> [r \in 1..Len(sorted.rows) |->
                 <<Column(sorted, "Vessel Name")[r], Column(sorted, "File Name")[r]>>],
        total |-> Column(sorted, "Total Count of Jobs"),
        new |-> Column(sorted, "New Job Count")]

\* The two metrics and the first tab.
JobDistributionChart ==
    /\ pc = "tab1"
    /\ charts' = [charts EXCEPT
                    !.metrics = <<Len(filtered_df.rows),
                                  Cardinality(Unique(Column(filtered_df, "Vessel Name")) \ {NaN})>>,
                    !.bar = create_vessel_job_distribution_chart(filtered_df)]
    /\ pc' = "tab2"
    /\ UNCHANGED <<uploaded_files, summary_data, progress, err, df, vessel_filter,
                   date_range, filtered_df, filtered_df_display, breakdown,
                   excel_file>>

\* utils.create_jobs_timeline_chart: groupby(date).agg(sum), one point per
\* date in date order; rows without a date belong to no group.
create_jobs_timeline_chart(frame) ==
    LET dates == Column(frame, "Date Extracted from File Name")
        days == {d \in Unique(dates) : ~IsNull(d)}
        Group(d) == Rows(frame, {r \in 1..Len(frame.rows) : dates[r] = d})
        Point(d) == [date |-> d,
                     total |-> Sum(Column(Group(d), "Total Count of Jobs")),
                     new |-> Sum(Column(Group(d), "New Job Count"))]
    IN [p \in 1..Cardinality(days) |->
          Point(CHOOSE d \in days : Cardinality({e \in days : e.n < d.n}) = p - 1)]

\* The second tab: adding an int to a str in one group raises TypeError.
TimelineChart ==
    /\ pc = "tab2"
    /\ LET points == create_jobs_timeline_chart(filtered_df)
       IN IF \E p \in 1..Len(points) : IsExc(points[p].total) \/ IsExc(points[p].new)
          THEN /\ Raise("tab2", "TypeError")
               /\ UNCHANGED charts
          ELSE /\ charts' = [charts EXCEPT !.timeline = points]
               /\ pc' = "tab3"
               /\ err' = err
    /\ UNCHANGED <<uploaded_files, summary_data, progress, df, vessel_filter,
                   date_range, filtered_df, filtered_df_display, breakdown,
                   excel_file>>

\* utils.create_jobs_pie_chart: the values [new_jobs, existing_jobs].
create_jobs_pie_chart(frame) ==
    LET total_jobs == Sum(Column(frame, "Total Count of Jobs"))
        new_jobs == Sum(Column(frame, "New Job Count"))
        existing_jobs == PySub(total_jobs, new_jobs)
    IN <<new_jobs, existing_jobs>>

\* The third tab: a sum over an 'Error' value is a str or raises, and the
\* subtraction of the two sums raises TypeError.
PieChart ==
    /\ pc = "tab3"
    /\ LET values == create_jobs_pie_chart(filtered_df)
       IN IF IsExc(values[1]) \/ IsExc(values[2])
          THEN /\ Raise("tab3", "TypeError")
               /\ UNCHANGED charts
          ELSE /\ charts' = [charts EXCEPT !.pie = values]
               /\ pc' = "display"
               /\ err' = err
    /\ UNCHANGED <<uploaded_files, summary_data, progress, df, vessel_filter,
                   date_range, filtered_df, filtered_df_display, breakdown,
                   excel_file>>

\* frame[keys]: the named columns, in the order of keys.
Select(frame, keys) ==
    [columns |-> keys,
     rows |-> [r \in 1..Len(frame.rows) |->
                 [c \in 1..Len(keys) |-> frame.rows[r][Col(frame, keys[c])]]]]

\* DataFrame.sort_values(key, ascending=False) on a column of texts: the
\* greater text first by code points, missing values last, equal values in
\* their input order.
SortValuesDescending(frame, key) ==
    LET v == Column(frame, key)
        Before(j, i) ==
            IF IsNull(v[j]) \/ IsNull(v[i])
            THEN (~IsNull(v[j]) /\ IsNull(v[i])) \/ (IsNull(v[j]) /\ IsNull(v[i]) /\ j < i)
            ELSE StrLess(v[i].s, v[j].s) \/ (v[j].s = v[i].s /\ j < i)
    IN [frame EXCEPT !.rows = Reorder(frame.rows, Before)]

\* The vessels of the expanders: sorted(filtered_df['Vessel Name'].unique()).
Vessels == Sorted(Unique(Column(filtered_df, "Vessel Name")))

\* filtered_df_display: the date column as text.
FormatDisplay ==
    /\ pc = "display"
    /\ filtered_df_display' =
           MapColumn(filtered_df, "Date Extracted from File Name", Strftime)
    /\ IF ~Sortable(Unique(Column(filtered_df, "Vessel Name")))
       THEN Raise("expander", "TypeError")
       ELSE /\ pc' = IF Vessels = <<>> THEN "details" ELSE "expander"
            /\ err' = err
    /\ UNCHANGED <<uploaded_files, summary_data, progress, df, vessel_filter,
                   date_range, filtered_df, charts, breakdown, excel_file>>

\* The body of `for vessel in sorted(...)` for one vessel: its rows are those
\* whose name == vessel, its totals their sums, its table the four columns
\* sorted by the date text, descending.
Expander(name) ==
    LET names == Column(filtered_df_display, "Vessel Name")
        vessel_data == Rows(filtered_df_display,
                            {r \in 1..Len(names) : PyEq(names[r], name)})
    IN [vessel |-> name,
        files |-> Len(vessel_data.rows),
        total |-> Sum(Column(vessel_data, "Total Count of Jobs")),
        new |-> Sum(Column(vessel_data, "New Job Count")),
        table |-> SortValuesDescending(
                      Select(vessel_data,
                             <<"File Name", "Date Extracted from File Name",
                               "Total Count of Jobs", "New Job Count">>),
                      "Date Extracted from File Name")]

\* One iteration of the loop over the vessels.
VesselExpander ==
    /\ pc = "expander"
    /\ LET e == Expander(Vessels[Len(breakdown) + 1])
       IN IF IsExc(e.total) \/ IsExc(e.new)
          THEN /\ Raise("expander", "TypeError")
               /\ UNCHANGED breakdown
          ELSE /\ breakdown' = Append(breakdown, e)
               /\ pc' = IF Len(breakdown) + 1 = Len(Vessels) THEN "details"
                        ELSE "expander"
               /\ err' = err
    /\ UNCHANGED <<uploaded_files, summary_data, progress, df, vessel_filter,
                   date_range, filtered_df, charts, filtered_df_display,
                   excel_file>>

\* st.dataframe(filtered_df_display), then the button is drawn.
DetailedResults ==
    /\ pc = "details"
    /\ pc' = "button"
    /\ UNCHANGED <<uploaded_files, summary_data, progress, err, df, vessel_filter,
                   date_range, filtered_df, charts, filtered_df_display,
                   breakdown, excel_file>>

\* DataFrame.to_excel(index=False): the header row holds the columns in
\* their order, every table row follows in its order, and a missing value is
\* an empty cell.
ToExcel(frame) ==
    [header |-> frame.columns,
     rows |-> [r \in 1..Len(frame.rows) |->
                 [c \in 1..Len(frame.columns) |->
                    IF IsNull(frame.rows[r][c]) THEN None ELSE frame.rows[r][c]]]]

\* utils.create_excel_report: the cells of the sheet, the range of the
\* duplicate rule on column B, the rows filled gray and the range of the
\* table. Fonts, borders, alignment and column widths leave the cells as
\* they are and are not modelled.
create_excel_report(frame) ==
    LET ws == ToExcel(frame)
        max_row == 1 + Len(ws.rows)
    IN [header |-> ws.header,
        rows |-> ws.rows,
        duplicate_rule |-> <<"B", 2, max_row>>,
        gray_fill |-> {r \in 2..max_row : r % 2 = 0},
        table_ref |-> <<"A", 1, "E", max_row>>]

\* The button is clicked: the report is built for the download.
GenerateExcelReport ==
    /\ pc = "button"
    /\ excel_file' = create_excel_report(filtered_df_display)
    /\ pc' = "done"
    /\ UNCHANGED <<uploaded_files, summary_data, progress, err, df, vessel_filter,
                   date_range, filtered_df, charts, filtered_df_display,
                   breakdown>>

\* The button is not clicked: the run ends.
NoReport ==
    /\ pc = "button"
    /\ pc' = "done"
    /\ UNCHANGED <<uploaded_files, summary_data, progress, err, df, vessel_filter,
                   date_range, filtered_df, charts, filtered_df_display,
                   breakdown, excel_file>>

Next ==
    \/ Upload
    \/ ProcessFile
    \/ BuildTable
    \/ Filters
    \/ ApplyFilters
    \/ JobDistributionChart
    \/ TimelineChart
    \/ PieChart
    \/ FormatDisplay
    \/ VesselExpander
    \/ DetailedResults
    \/ GenerateExcelReport
    \/ NoReport

Spec == Init /\ [][Next]_vars

---------------------------------------------------------------------------
(* Properties of process_csv_file (ExtractSpec) and of the loop (LoopSpec) *)

\* The record made from the k-th file, and its fields.
VesselOf(record) == Get(record, "Vessel Name")

TotalOf(record) == Get(record, "Total Count of Jobs")

NewOf(record) == Get(record, "New Job Count")

DateOf(record) == Get(record, "Date Extracted from File Name")

FileOf(record) == Get(record, "File Name")

Processed == 1..Len(summary_data)

HasTextName(file) == file.has_name /\ file.name.t = "str"

\* A run of exactly eight digits starts at p: a non-digit or the edge of the
\* text on each side.
DigitRunAt(s, p) ==
    /\ p + 7 <= Len(s)
    /\ \A k \in 0..7 : IsDigit(s[p + k])
    /\ p = 1 \/ ~IsDigit(s[p - 1])
    /\ p + 8 > Len(s) \/ ~IsDigit(s[p + 8])

\* DD-MM-YYYY of the first such run, Unknown when there is none.
DateOfFirstRun(s) == FormatMatch(s, First({p \in 1..Len(s) : DigitRunAt(s, p)}))

\* C1: for every file name, the date of the record is DD-MM-YYYY built from
\* the first run of exactly 8 digits bounded by a non-digit or the edge of
\* the name (a letter or an underscore included), and Unknown when the name
\* has no such run.
C1_DateOfFirstDigitRun ==
    \A k \in Processed :
        HasTextName(uploaded_files[k]) =>
            DateOf(summary_data[k]) = PyStr(DateOfFirstRun(uploaded_files[k].name.s))

\* The inputs the call fails on: no name, a name that is no str, a buffer
\* read_csv raises on, a vessel column without a data row.
FailsOn(file) ==
    \/ ~HasTextName(file)
    \/ file.content.kind # "table"
    \/ FirstColumn(file.content.columns, vessel) # 0 /\ file.content.rows = <<>>

\* C3: no exception leaves process_csv_file, and for every input it fails on
\* the record has 'Error' as vessel name, total and new count, the file's name
\* if it was read (else 'Unknown') and the date if it was extracted before the
\* failure (else 'Unknown').
C3_ErrorRecordOnFailure ==
    /\ err.at # "loop"
    /\ \A k \in Processed :
        FailsOn(uploaded_files[k]) =>
            /\ VesselOf(summary_data[k]) = PyStr(Error)
            /\ TotalOf(summary_data[k]) = PyStr(Error)
            /\ NewOf(summary_data[k]) = PyStr(Error)
            /\ FileOf(summary_data[k]) =
                   IF uploaded_files[k].has_name THEN uploaded_files[k].name
                   ELSE PyStr(Unknown)
            /\ DateOf(summary_data[k]) =
                   IF HasTextName(uploaded_files[k])
                   THEN PyStr(formatted_date(uploaded_files[k].name.s))
                   ELSE PyStr(Unknown)

\* A file that failed after its date was extracted: the record keeps the
\* name and the date and holds 'Error' elsewhere.
C3_Witness ==
    \E k \in Processed :
        /\ FailsOn(uploaded_files[k])
        /\ HasTextName(uploaded_files[k])
        /\ DateOf(summary_data[k]) # PyStr(Unknown)
        /\ FileOf(summary_data[k]) = uploaded_files[k].name
        /\ TotalOf(summary_data[k]) = PyStr(Error)

RECURSIVE DropLeadingSpaces(_)
DropLeadingSpaces(s) ==
    IF s # <<>> /\ Head(s) = " " THEN DropLeadingSpaces(Tail(s)) ELSE s

RECURSIVE DropTrailingSpaces(_)
DropTrailingSpaces(s) ==
    IF s # <<>> /\ s[Len(s)] = " "
    THEN DropTrailingSpaces(SubSeq(s, 1, Len(s) - 1)) ELSE s

\* The value is a text that is exactly New once the spaces around it are
\* removed.
IsNewJob(v) == v.t = "str" /\ DropTrailingSpaces(DropLeadingSpaces(v.s)) = <<"N","e","w">>

\* The number of rows whose value in column col is New; no column: 0.
RECURSIVE NewJobs(_, _)
NewJobs(rows, col) ==
    IF col = 0 \/ rows = <<>> THEN 0
    ELSE (IF IsNewJob(Head(rows)[col]) THEN 1 ELSE 0) + NewJobs(Tail(rows), col)

\* The counts the claim gives for the table of a file.
CountsAsClaimed(file, record) ==
    /\ TotalOf(record) = PyInt(Len(file.content.rows))
    /\ NewOf(record) =
           PyInt(NewJobs(file.content.rows, FirstColumn(file.content.columns, status)))
    /\ NewOf(record).n >= 0
    /\ NewOf(record).n <= TotalOf(record).n

IsTableFile(file) == HasTextName(file) /\ file.content.kind = "table"

\* C8 as stated: for every CSV that parses into a table of n >= 0 data rows,
\* the total is n and the new count is the number of rows whose first status
\* column, trimmed, is exactly New (0 without a status column), so that
\* 0 <= new <= total.
C8_CountsOfEveryTable ==
    \A k \in Processed :
        IsTableFile(uploaded_files[k]) =>
            CountsAsClaimed(uploaded_files[k], summary_data[k])

\* C8 as amended: the same for every table that has a data row or has no
\* vessel column; a table with a vessel column and no data row gives the
\* 'Error' record.
C8_CountsOfTablesWithAFirstRow ==
    \A k \in Processed :
        IsTableFile(uploaded_files[k]) =>
            IF FailsOn(uploaded_files[k])
            THEN /\ uploaded_files[k].content.rows = <<>>
                 /\ TotalOf(summary_data[k]) = PyStr(Error)
                 /\ NewOf(summary_data[k]) = PyStr(Error)
            ELSE CountsAsClaimed(uploaded_files[k], summary_data[k])

\* A table of two rows, one of them New only once trimmed: total 2, new 1.
C8_Witness ==
    \E k \in Processed :
        /\ IsTableFile(uploaded_files[k])
        /\ FirstColumn(uploaded_files[k].content.columns, status) # 0
        /\ \E r \in 1..Len(uploaded_files[k].content.rows) :
               uploaded_files[k].content.rows[r]
                   [FirstColumn(uploaded_files[k].content.columns, status)]
                   = PyStr(<<" ","N","e","w"," ">>)
        /\ TotalOf(summary_data[k]) = PyInt(2)
        /\ NewOf(summary_data[k]) = PyInt(1)

\* In every state of the loop: i records for the i files processed, the k-th
\* made from the k-th file alone, and the progress reported is i/n, at most 1.
LoopInvariant ==
    /\ Len(summary_data) <= Len(uploaded_files)
    /\ \A k \in Processed :
           summary_data[k] = process_csv_file(uploaded_files[k]).ret
    /\ Len(summary_data) >= 1 =>
           progress.num * Len(uploaded_files) = Len(summary_data) * progress.den
    /\ progress.num <= progress.den

\* A step reports a progress greater than the one before.
ProgressGrows == progress'.num * progress.den > progress.num * progress'.den

LoopDone ==
    /\ pc = "frame"
    /\ Len(summary_data) = Len(uploaded_files)
    /\ progress.num = progress.den

\* C10: the files are processed one by one in upload order: after the i-th
\* the list holds i records, the k-th derived from the k-th file alone, and
\* the progress is i/n; the progress strictly increases, never exceeds 1 and
\* eventually is 1 with n records, whether or not a file failed.
C10_SequentialLoop ==
    /\ []LoopInvariant
    /\ [][pc = "loop" => ProgressGrows]_vars
    /\ (pc = "loop") ~> LoopDone

\* A batch of two files, one of which failed, fully processed.
C10_Witness ==
    /\ LoopDone
    /\ Len(summary_data) = 2
    /\ \E k \in Processed : TotalOf(summary_data[k]) = PyStr(Error)
    /\ \E k \in Processed : TotalOf(summary_data[k]) # PyStr(Error)

---------------------------------------------------------------------------
(* Properties of the script, under Spec *)

\* A record of the batch carries the 'Error' sentinels.
HasFailedRecord ==
    \E k \in Processed :
        /\ VesselOf(summary_data[k]) = PyStr(Error)
        /\ TotalOf(summary_data[k]) = PyStr(Error)
        /\ NewOf(summary_data[k]) = PyStr(Error)

\* C2: when a file of the batch failed inside process_csv_file, the chart
\* rollups and the per-vessel breakdown still complete: no fatal error is
\* raised in them, the failure shows only as sentinel values.
C2_FailedFileDoesNotAbort ==
    HasFailedRecord => err.at \notin {"tab2", "tab3", "expander"}

\* The filters have been applied.
Filtered == filtered_df # EmptyFrame

\* C4: unparseable dates never raise: the bounds of the date filter are
\* computed and the filter is drawn without error even when every date is
\* null, and a two-ended range leaves no record with a null date.
C4_UnparseableDatesNeverRaise ==
    /\ err.at # "date_input"
    /\ (Filtered /\ Len(date_range) = 2) =>
           \A r \in 1..Len(filtered_df.rows) :
               ~IsNull(Column(filtered_df, "Date Extracted from File Name")[r])

\* C5: the vessels of the breakdown are in ascending order of name, and of
\* two rows of one vessel with different dates the one with the later
\* calendar date comes first.
C5_LaterDateFirst ==
    /\ \A k, l \in 1..Len(breakdown) :
           k < l => StrLess(breakdown[k].vessel.s, breakdown[l].vessel.s)
    /\ \A k \in 1..Len(breakdown) :
           \A p, q \in 1..Len(breakdown[k].table.rows) :
               \E dp \in {ToDatetime(Column(breakdown[k].table,
                                            "Date Extracted from File Name")[p])} :
               \E dq \in {ToDatetime(Column(breakdown[k].table,
                                            "Date Extracted from File Name")[q])} :
                   (p < q /\ dp.t = "date" /\ dq.t = "date" /\ dp # dq) => dp.n > dq.n

\* The report has been built from the table of the page.
Exported == pc = "done" /\ excel_file # NoSheet

\* Every row of the table is a row of the sheet, in the order of the table,
\* each value under the header of its column and a missing value as an
\* empty cell.
OneSheetRowPerRow ==
    /\ Len(excel_file.rows) = Len(filtered_df_display.rows)
    /\ \A r \in 1..Len(excel_file.rows) :
           \A c \in 1..Len(excel_file.header) :
               \E v \in {Column(filtered_df_display, excel_file.header[c])[r]} :
                   excel_file.rows[r][c] = IF v.t \in {"nan", "nat"} THEN None ELSE v

\* C6 as stated: the columns A to E of the sheet are File Name, Vessel Name,
\* Date Extracted from File Name, Total Count of Jobs, New Job Count, with
\* one sheet row per input row in input order.
C6_DateIsThirdColumn ==
    Exported =>
        /\ excel_file.header =
               <<"File Name", "Vessel Name", "Date Extracted from File Name",
                 "Total Count of Jobs", "New Job Count">>
        /\ OneSheetRowPerRow

\* C6 as amended: the columns A to E of the sheet are File Name, Vessel Name,
\* Total Count of Jobs, New Job Count, Date Extracted from File Name, with
\* one sheet row per input row in input order.
C6_DateIsLastColumn ==
    Exported =>
        /\ excel_file.header =
               <<"File Name", "Vessel Name", "Total Count of Jobs",
                 "New Job Count", "Date Extracted from File Name">>
        /\ OneSheetRowPerRow

\* A report of two rows or more, one of them without a date.
C6_Witness ==
    /\ Exported
    /\ Len(excel_file.rows) >= 2
    /\ \E r \in 1..Len(excel_file.rows) : excel_file.rows[r][5] = None
    /\ \E r \in 1..Len(excel_file.rows) : excel_file.rows[r][5] # None

\* C7: the filtered table is the rows of the table, in their order, whose
\* vessel is selected (or no vessel is selected) and whose date is known and
\* within the range, ends included (or the range lacks an end).
C7_FilteredRows ==
    Filtered =>
        /\ filtered_df.columns = df.columns
        /\ LET vessel_of(row) == row[Col(df, "Vessel Name")]
               date_of(row) == row[Col(df, "Date Extracted from File Name")]
               Keep(row) ==
                   /\ vessel_filter = {} \/ vessel_of(row) \in vessel_filter
                   /\ \/ Len(date_range) # 2
                      \/ /\ date_of(row).t = "date"
                         /\ date_range[1].n <= date_of(row).n
                         /\ date_of(row).n <= date_range[2].n
           IN filtered_df.rows = SelectSeq(df.rows, Keep)

\* Some vessels are selected and the range has its two ends: a row of a
\* selected vessel is dropped for its null date, and a row dated the last
\* day of the range is kept.
C7_Witness ==
    /\ Filtered
    /\ vessel_filter # {}
    /\ Len(date_range) = 2
    /\ \E r \in 1..Len(df.rows) :
           /\ Column(df, "Vessel Name")[r] \in vessel_filter
           /\ Column(df, "Date Extracted from File Name")[r] = NaT
    /\ \E r \in 1..Len(filtered_df.rows) :
           Column(filtered_df, "Date Extracted from File Name")[r] = date_range[2]
    /\ Len(filtered_df.rows) < Len(df.rows)

\* The breakdown has listed every vessel.
BreakdownDone == pc \in {"details", "button", "done"}

\* The displayed totals of the vessels of the breakdown, as a list.
VesselTotals == [k \in 1..Len(breakdown) |-> breakdown[k].total]

VesselNewCounts == [k \in 1..Len(breakdown) |-> breakdown[k].new]

\* C9: for a non-empty filtered table, the sum of the totals (and of the new
\* counts) over its rows equals the sum of the displayed totals (new counts)
\* of the vessels of the breakdown: every row is counted in one vessel
\* group, a row without a vessel name included.
C9_RollupIsSumOfVessels ==
    (BreakdownDone /\ Len(filtered_df.rows) > 0) =>
        /\ Sum(Column(filtered_df, "Total Count of Jobs")) = Sum(VesselTotals)
        /\ Sum(Column(filtered_df, "New Job Count")) = Sum(VesselNewCounts)

=============================================================================
